---- MODULE Spec2Model ----
(***************************************************************************)
(* QuestionBase (src/src/questionbase.ts): the observable property model,  *)
(* the conditional-visibility gate, the lazy custom-widget binding and the *)
(* identity assignment of a survey question.                               *)
(*                                                                         *)
(* A question is a record; every public operation is an operator that      *)
(* takes a run context [q |-> the question, log |-> the events the call    *)
(* has produced so far, thrown |-> whether an exception is propagating]    *)
(* and returns the context after the call.  The actions apply one public   *)
(* operation to one question and publish the call, its events and its      *)
(* outcome in the variables call, log and thrown.                          *)
(***************************************************************************)
EXTENDS Integers, Sequences, FiniteSets, TLC

VARIABLES
    questionCounter,  \* QuestionBase.questionCounter (static)
    questions,        \* the questions constructed so far, in construction order
    createdIds,       \* history: the id each construction assigned, in order
    call,             \* history: the last public operation and its argument
    log,              \* history: the events the last operation produced, in order
    thrown,           \* history: whether the last operation ended in an exception
    resolverCalls,    \* history: resolver invocations on behalf of each question
    updateCalls,      \* history: updateCustomWidget calls on each question
    widgetReads,      \* history: customWidget reads on each question
    lookupMissed,     \* history: whether a resolver lookup for the question found no match
    surveyCss,        \* the process-wide style sheet, surveyCss.getCss()
    returned,         \* history: <<v>> when the last operation returned v, else <<>>
    evals,            \* history: what the last operation did with the evaluator
    lastNotified,     \* history: <<b>> when the container, since it was attached,
                      \*   was last notified of visibility b, else <<>>
    visibleIndexHistory  \* history: per question, setVisibleIndex calls, the calls
                         \*   that changed the index, and hook firings

vars == <<questionCounter, questions, createdIds, call, log, thrown,
          resolverCalls, updateCalls, widgetReads, lookupMissed,
          surveyCss, returned, evals, lastNotified, visibleIndexHistory>>

(***************************************************************************)
(* Bounds of the model.                                                    *)
(***************************************************************************)
MaxIndent == 1          \* indent and rightIndent are assigned values in 0..MaxIndent
MaxValue == 1           \* runCondition is given the mappings {x: v}, v in 0..MaxValue
MaxQuestions == 3       \* constructions in one process
MaxUpdateCalls == 2     \* updateCustomWidget calls per question
MaxWidgetReads == 3     \* customWidget reads per question
MaxVisibleIndex == 1    \* setVisibleIndex is given values in -1..MaxVisibleIndex
MaxIndexCalls == 4      \* setVisibleIndex calls per question

(***************************************************************************)
(* Program constants.                                                      *)
(***************************************************************************)
InitialQuestionCounter == 100
DefaultIndent == 0
DefaultRightIndent == 0
DefaultVisibleIndex == -1
SetVisibleIndexResult == 1

(***************************************************************************)
(* Value domains the operations' inputs are drawn from.                    *)
(***************************************************************************)
NoSurvey == "no survey"
Survey == "survey"
NoRunner == <<>>
NoWidget == "no widget"
\* Style values: an absent (undefined) entry, a string, or a mapping from keys
\* to style values.
Absent == [kind |-> "absent", text |-> "", entries |-> <<>>]
Str(s) == [kind |-> "string", text |-> s, entries |-> <<>>]
Map(e) == [kind |-> "mapping", text |-> "", entries |-> e]
\* the style sheet with no entry
NoStyleSheet == [question |-> Absent, error |-> Absent, questionbase |-> Absent]

\* the style values a style sheet may hold under a key of the group named g
\* ("q" the question group, "e" the error group, "t" the per-type entry)
KeyValues(g, key) ==
    IF key = "error" /\ g # "e"
    THEN {Str(g \o "-error"), Map(<<>>), Map("item" :> Str(g \o "-item"))}
    ELSE {Str(g \o "-" \o key)}

\* the mappings of group g over the subsets of keys
Mappings(g, keys) ==
    UNION {{Map(f) : f \in {h \in [S -> UNION {KeyValues(g, k) : k \in S}] :
                                 \A k \in S : h[k] \in KeyValues(g, k)}}
           : S \in SUBSET keys}

\* the groups of a style sheet: absent, the empty string, a string, a mapping
Groups(g, keys) == {Absent, Str(""), Str(g)} \cup Mappings(g, keys)

StyleSheets ==
    [question : Groups("q", {"root", "title", "error"}),
     error : Groups("e", {"root", "item"}),
     questionbase : Groups("t", {"root", "error"})]

\* what the container's updateQuestionCssClasses handler assigns in the
\* classes it is given: nothing, a root, an error mapping
Customizations ==
    {<<>>, "root" :> Str("c-root"), "error" :> Map("item" :> Str("c-item"))}
Widgets == {"widgetA", "widgetB"}
Names == {"question"}
RenderWidths == {"", "50%"}
Widths == {"", "100px"}
Indents == 0..MaxIndent
VisibleIndexes == DefaultVisibleIndex..MaxVisibleIndex
\* visibleIf texts: empty, two well-formed expressions, one malformed
Expressions == {"", "{x} = 1", "{x} = 0", "{x} ="}
ValueMaps == {[x |-> v] : v \in 0..MaxValue}
AssignableIds == {"sq_100", "myId"}

\* the single-slot hooks of a question (fields of lines 27-34)
VisibilityHooks == {"visibilityChangedCallback", "rowVisibilityChangedCallback"}
NotifyHooks == {"focusCallback", "surveyLoadCallback", "readOnlyChangedCallback"}
\* what the container's getLocale() answers
Locales == {"", "de"}
LayoutHooks == {"renderWidthChangedCallback", "startWithNewLineChangedCallback"}

(***************************************************************************)
(* Decimal text of a natural number, as string concatenation writes it.    *)
(***************************************************************************)
Digit(d) ==
    CASE d = 0 -> "0" [] d = 1 -> "1" [] d = 2 -> "2" [] d = 3 -> "3"
      [] d = 4 -> "4" [] d = 5 -> "5" [] d = 6 -> "6" [] d = 7 -> "7"
      [] d = 8 -> "8" [] d = 9 -> "9"

RECURSIVE NumberToString(_)
NumberToString(n) ==
    IF n < 10 THEN Digit(n) ELSE NumberToString(n \div 10) \o Digit(n % 10)

(***************************************************************************)
(* PropertyStore: the property bag of Base.                                *)
(***************************************************************************)
getPropertyValue(q, name, defaultValue) ==
    IF name \in DOMAIN q.propertyHash THEN q.propertyHash[name] ELSE defaultValue

setPropertyValue(r, name, val) ==
    [r EXCEPT !.q.propertyHash = (name :> val) @@ @]

(***************************************************************************)
(* Events.                                                                 *)
(***************************************************************************)
Emit(r, e) == [r EXCEPT !.log = Append(@, e)]

\* A callback assigned to a hook field is an observer, which does not call
\* back into the question, unless q.reentrant names the hook: then the callback
\* assigns visible or calls runCondition on the question it was fired by.
RECURSIVE fireCallback(_, _), set_visible(_, _), runCondition(_, _)

(***************************************************************************)
(* Property getters.                                                       *)
(***************************************************************************)
get_id(q) == getPropertyValue(q, "id", "")
get_visible(q) == getPropertyValue(q, "visible", TRUE)
get_visibleIf(q) == getPropertyValue(q, "visibleIf", "")
get_startWithNewLine(q) == getPropertyValue(q, "startWithNewLine", TRUE)
get_width(q) == getPropertyValue(q, "width", "")
get_renderWidth(q) == getPropertyValue(q, "renderWidth", "")
get_indent(q) == getPropertyValue(q, "indent", DefaultIndent)
get_rightIndent(q) == getPropertyValue(q, "rightIndent", DefaultRightIndent)
get_visibleIndex(q) == getPropertyValue(q, "visibleIndex", DefaultVisibleIndex)

(***************************************************************************)
(* Capability queries: the base answers, which read no state.              *)
(***************************************************************************)
\* mutant: a question is read-only only while a container is attached
get_isReadOnly_WhenAttached(q) == q.survey # NoSurvey

get_isReadOnly(q) == TRUE
hasErrors(q, fireCallback_) == FALSE
get_currentErrorCount(q) == 0
get_hasTitle(q) == FALSE
get_hasDescription(q) == FALSE
get_hasInput(q) == FALSE
get_hasComment(q) == FALSE
getAllErrors(q) == <<>>

(***************************************************************************)
(* Property setters.                                                       *)
(***************************************************************************)
\* mutant: the id setter ignores the assignment once an id is stored
set_id_KeepsFirst(r, val) ==
    IF "id" \in DOMAIN r.q.propertyHash THEN r ELSE setPropertyValue(r, "id", val)

set_id(r, val) == setPropertyValue(r, "id", val)

\* this.survey.questionVisibilityChanged(this, newVisible).  The event also
\* records the value given to the setter call that notifies and the value
\* visible reads as at that moment.
questionVisibilityChanged(r, newVisible, assigned) ==
    Emit(r, [ev |-> "questionVisibilityChanged", val |-> newVisible,
             assigned |-> assigned, current |-> get_visible(r.q)])

\* fireCallback(callback): if (callback) callback();
\* The event records the call and whether a callback was set and so ran.
fireCallback(r, hook) ==
    LET r1 == Emit(r, [ev |-> hook, ran |-> hook \in r.q.callbacks])
    IN  IF hook \in r.q.callbacks /\ r.q.reentrant # <<>> /\ r.q.reentrant[1].hook = hook
        THEN IF r.q.reentrant[1].op = "visible"
             THEN set_visible(r1, r.q.reentrant[1].val)
             ELSE runCondition(r1, r.q.reentrant[1].values)
        ELSE r1

\* mutant: the container is notified before the local hooks
set_visible_NotifiesFirst(r, val) ==
    IF val = get_visible(r.q) THEN r
    ELSE LET r1 == setPropertyValue(r, "visible", val)
             r2 == IF r1.q.survey # NoSurvey
                   THEN questionVisibilityChanged(r1, get_visible(r1.q), val)
                   ELSE r1
             r3 == fireCallback(r2, "visibilityChangedCallback")
         IN  fireCallback(r3, "rowVisibilityChangedCallback")

\* mutant: no change gate
set_visible_NoGuard(r, val) ==
    LET r1 == setPropertyValue(r, "visible", val)
        r2 == fireCallback(r1, "visibilityChangedCallback")
        r3 == fireCallback(r2, "rowVisibilityChangedCallback")
    IN  IF r3.q.survey # NoSurvey
        THEN questionVisibilityChanged(r3, get_visible(r3.q), val)
        ELSE r3

\* mutant: the container is told the assigned value, not the value read back
set_visible_NotifiesAssigned(r, val) ==
    IF val = get_visible(r.q) THEN r
    ELSE LET r1 == setPropertyValue(r, "visible", val)
             r2 == fireCallback(r1, "visibilityChangedCallback")
             r3 == IF r2.thrown THEN r2
                   ELSE fireCallback(r2, "rowVisibilityChangedCallback")
         IN  IF r3.thrown \/ r3.q.survey = NoSurvey THEN r3
             ELSE questionVisibilityChanged(r3, val, val)

\* an exception thrown by a callback ends the setter where the callback was fired
set_visible(r, val) ==
    IF val = get_visible(r.q) THEN r
    ELSE LET r1 == setPropertyValue(r, "visible", val)
             r2 == fireCallback(r1, "visibilityChangedCallback")
             r3 == IF r2.thrown THEN r2
                   ELSE fireCallback(r2, "rowVisibilityChangedCallback")
         IN  IF r3.thrown \/ r3.q.survey = NoSurvey THEN r3
             ELSE questionVisibilityChanged(r3, get_visible(r3.q), val)

set_visibleIf(r, val) == setPropertyValue(r, "visibleIf", val)

set_startWithNewLine(r, val) ==
    IF get_startWithNewLine(r.q) = val THEN r
    ELSE fireCallback(setPropertyValue(r, "startWithNewLine", val),
                      "startWithNewLineChangedCallback")

\* mutant: width is change-gated and fires the render-width-change hook
set_width_FiresRenderWidthHook(r, val) ==
    IF val = get_width(r.q) THEN r
    ELSE fireCallback(setPropertyValue(r, "width", val),
                      "renderWidthChangedCallback")

set_width(r, val) == setPropertyValue(r, "width", val)

set_renderWidth(r, val) ==
    IF val = get_renderWidth(r.q) THEN r
    ELSE fireCallback(setPropertyValue(r, "renderWidth", val),
                      "renderWidthChangedCallback")

\* mutant: assigning indent stores the value as rightIndent too
set_indent_StoresBoth(r, val) ==
    IF val = get_indent(r.q) THEN r
    ELSE fireCallback(setPropertyValue(setPropertyValue(r, "indent", val),
                                       "rightIndent", val),
                      "renderWidthChangedCallback")

set_indent(r, val) ==
    IF val = get_indent(r.q) THEN r
    ELSE fireCallback(setPropertyValue(r, "indent", val),
                      "renderWidthChangedCallback")

\* mutant: the change gate reads indent instead of rightIndent
set_rightIndent_ComparesIndent(r, val) ==
    IF val = get_indent(r.q) THEN r
    ELSE fireCallback(setPropertyValue(r, "rightIndent", val),
                      "renderWidthChangedCallback")

set_rightIndent(r, val) ==
    IF val = get_rightIndent(r.q) THEN r
    ELSE fireCallback(setPropertyValue(r, "rightIndent", val),
                      "renderWidthChangedCallback")

(***************************************************************************)
(* setVisibleIndex: both paths return the same number.                     *)
(***************************************************************************)
\* mutant: no change gate
setVisibleIndex_NoGuard(r, val) ==
    [fireCallback(setPropertyValue(r, "visibleIndex", val),
                  "visibleIndexChangedCallback")
        EXCEPT !.returned = <<SetVisibleIndexResult>>]

setVisibleIndex(r, val) ==
    IF get_visibleIndex(r.q) = val
    THEN [r EXCEPT !.returned = <<SetVisibleIndexResult>>]
    ELSE [fireCallback(setPropertyValue(r, "visibleIndex", val),
                       "visibleIndexChangedCallback")
             EXCEPT !.returned = <<SetVisibleIndexResult>>]

(***************************************************************************)
(* Notification entry points.  surveyLocale is what the container's        *)
(* getLocale() answers when it is asked.                                   *)
(***************************************************************************)
\* mutant: focus fires the focus hook
focus_FiresFocusCallback(r, onError) == fireCallback(r, "focusCallback")

focus(r, onError) == r

onSurveyLoad(r) == fireCallback(r, "surveyLoadCallback")

onReadOnlyChanged(r) == r

getLocale(q, surveyLocale) == IF q.survey # NoSurvey THEN surveyLocale ELSE ""

\* this.localeChanged.fire(this, this.getLocale())
onLocaleChanged(r, surveyLocale) ==
    Emit(r, [ev |-> "localeChanged", sender |-> r.q,
             options |-> getLocale(r.q, surveyLocale)])

(***************************************************************************)
(* StyleResolver.  css is the value of surveyCss.getCss().                 *)
(***************************************************************************)
getType(q) == "questionbase"

\* copyCssClasses(dest, source) on a dest that is an object
copyCssClasses(dest, source) ==
    IF source.kind = "absent" \/ source = Str("") THEN dest
    ELSE IF source.kind = "string"
         THEN [dest EXCEPT !.entries = ("root" :> Str(source.text)) @@ @]
         ELSE [dest EXCEPT !.entries = source.entries @@ @]

\* whether copyCssClasses(dest, source) assigns a property of dest
AssignsProperty(source) ==
    /\ source.kind # "absent" /\ source # Str("")
    /\ source.kind = "mapping" => source.entries # <<>>

\* mutant: of a per-type mapping only the root is taken
updateCssClasses_RootOnly(q, res, css) ==
    LET objCss == css[getType(q)]
    IN  IF objCss.kind = "absent" THEN res
        ELSE IF objCss.kind = "string"
             THEN [res EXCEPT !.entries = ("root" :> Str(objCss.text)) @@ @]
             ELSE IF "root" \in DOMAIN objCss.entries
                  THEN [res EXCEPT !.entries = ("root" :> objCss.entries["root"]) @@ @]
                  ELSE res

\* mutant: the per-type entry fills only the keys the result does not have
updateCssClasses_KeepsGeneric(q, res, css) ==
    LET objCss == css[getType(q)]
    IN  IF objCss.kind = "absent" THEN res
        ELSE IF objCss.kind = "string"
             THEN [res EXCEPT !.entries = @ @@ ("root" :> Str(objCss.text))]
             ELSE [res EXCEPT !.entries = @ @@ objCss.entries]

updateCssClasses(q, res, css) ==
    LET objCss == css[getType(q)]
    IN  IF objCss.kind = "absent" THEN res
        ELSE IF objCss.kind = "string"
             THEN [res EXCEPT !.entries = ("root" :> Str(objCss.text)) @@ @]
             ELSE [res EXCEPT !.entries = objCss.entries @@ @]

\* this.survey.updateQuestionCssClasses(this, classes): the handler assigns
\* the keys of customization in classes
updateQuestionCssClasses(classes, customization) ==
    [classes EXCEPT !.entries = customization @@ @]

\* The getter.  After the first copy classes.error is the object made by the
\* getter, or the object the question group holds under "error" (the style
\* sheet's own object, which the second copy then writes to), or a string.
\* Assigning a property of a string throws in strict mode and does nothing
\* otherwise; strictMode is the mode the build runs the module in.
cssClasses(q, css, strictMode, customization) ==
    LET classes0 == Map("error" :> Map(<<>>))
        classes1 == copyCssClasses(classes0, css.question)
        dest == classes1.entries["error"]
        shared == css.question.kind = "mapping"
                     /\ "error" \in DOMAIN css.question.entries
        newError == copyCssClasses(dest, css.error)
        classes2 == IF dest.kind = "string" THEN classes1
                    ELSE [classes1 EXCEPT !.entries["error"] = newError]
        css2 == IF shared /\ dest.kind # "string"
                THEN [css EXCEPT !.question.entries["error"] = newError]
                ELSE css
        classes3 == updateCssClasses(q, classes2, css2)
    IN  IF dest.kind = "string" /\ AssignsProperty(css.error) /\ strictMode
        THEN [thrown |-> TRUE, css |-> css, classes |-> classes1, log |-> <<>>]
        ELSE IF q.survey # NoSurvey
             THEN [thrown |-> FALSE, css |-> css2,
                   classes |-> updateQuestionCssClasses(classes3, customization),
                   log |-> <<[ev |-> "updateQuestionCssClasses",
                              classes |-> classes3]>>]
             ELSE [thrown |-> FALSE, css |-> css2, classes |-> classes3,
                   log |-> <<>>]

(***************************************************************************)
(* ConditionGate.                                                          *)
(***************************************************************************)
\* The evaluator collaborator: a deterministic function of the expression
\* text and the value mapping that returns a boolean or fails.
RunnerFails(expression, values) == expression = "{x} ="

RunnerResult(expression, values) ==
    CASE expression = "{x} = 1" -> values.x = 1
      [] expression = "{x} = 0" -> values.x = 0
      [] OTHER -> FALSE

\* new ConditionRunner(expression).  constructedWith never changes: it tells
\* one evaluator instance from another built with a different text.
newConditionRunner(expression) ==
    <<[expression |-> expression, constructedWith |-> expression]>>

\* if (!this.conditionRunner) this.conditionRunner = new ConditionRunner(this.visibleIf)
ensureConditionRunner(r) ==
    IF r.q.conditionRunner = NoRunner
    THEN [r EXCEPT !.q.conditionRunner = newConditionRunner(get_visibleIf(r.q)),
                   !.evals = Append(@, [ev |-> "new",
                                        expression |-> get_visibleIf(r.q)])]
    ELSE r

\* this.conditionRunner.run(values) is entered: the evaluation is recorded
\* with the evaluator's text and the visibleIf of the question at that moment
enterRun(r, values) ==
    [r EXCEPT !.evals = Append(@, [ev |-> "run",
                                   expression |-> r.q.conditionRunner[1].expression,
                                   visibleIf |-> get_visibleIf(r.q)])]

\* mutant: no early return on an empty visibleIf
runCondition_NoEmptyGuard(r, values) ==
    LET r1 == ensureConditionRunner(r)
        r2 == enterRun([r1 EXCEPT !.q.conditionRunner[1].expression =
                                      get_visibleIf(r1.q)], values)
    IN  IF RunnerFails(r2.q.conditionRunner[1].expression, values)
        THEN [r2 EXCEPT !.thrown = TRUE]
        ELSE set_visible(r2, RunnerResult(r2.q.conditionRunner[1].expression, values))

\* mutant: the cached evaluator keeps the expression it was built with
runCondition_StaleExpression(r, values) ==
    IF get_visibleIf(r.q) = "" THEN r
    ELSE LET r1 == enterRun(ensureConditionRunner(r), values)
         IN  IF RunnerFails(r1.q.conditionRunner[1].expression, values)
             THEN [r1 EXCEPT !.thrown = TRUE]
             ELSE set_visible(r1, RunnerResult(r1.q.conditionRunner[1].expression, values))

\* mutant: an evaluator failure is caught and the question is shown
runCondition_DefaultsVisible(r, values) ==
    IF get_visibleIf(r.q) = "" THEN r
    ELSE LET r1 == ensureConditionRunner(r)
             r2 == enterRun([r1 EXCEPT !.q.conditionRunner[1].expression =
                                           get_visibleIf(r1.q)], values)
         IN  IF RunnerFails(r2.q.conditionRunner[1].expression, values)
             THEN set_visible(r2, TRUE)
             ELSE set_visible(r2, RunnerResult(r2.q.conditionRunner[1].expression, values))

\* mutant: an evaluator is built for every evaluation
runCondition_Rebuilds(r, values) ==
    IF get_visibleIf(r.q) = "" THEN r
    ELSE LET r1 == ensureConditionRunner([r EXCEPT !.q.conditionRunner = NoRunner])
             r2 == enterRun(r1, values)
         IN  IF RunnerFails(r2.q.conditionRunner[1].expression, values)
             THEN [r2 EXCEPT !.thrown = TRUE]
             ELSE set_visible(r2, RunnerResult(r2.q.conditionRunner[1].expression, values))

runCondition(r, values) ==
    IF get_visibleIf(r.q) = "" THEN r
    ELSE LET r1 == ensureConditionRunner(r)
             r2 == enterRun([r1 EXCEPT !.q.conditionRunner[1].expression =
                                           get_visibleIf(r1.q)], values)
         IN  IF RunnerFails(r2.q.conditionRunner[1].expression, values)
             THEN [r2 EXCEPT !.thrown = TRUE]
             ELSE set_visible(r2, RunnerResult(r2.q.conditionRunner[1].expression, values))

(***************************************************************************)
(* WidgetBinding.  found is what CustomWidgetCollection.getCustomWidget    *)
(* answers for this question when it is asked: a widget or no match.       *)
(***************************************************************************)
getCustomWidget(r, found) == Emit(r, [ev |-> "getCustomWidget", ret |-> found])

updateCustomWidget(r, found) ==
    [getCustomWidget(r, found) EXCEPT !.q.customWidgetValue = found]

\* mutant: the getter never marks the request and looks up whenever nothing is cached
get_customWidget_RetriesOnMiss(r, found) ==
    IF r.q.customWidgetValue = NoWidget
    THEN updateCustomWidget(r, found)
    ELSE r

\* mutant: the getter marks the request but looks up whenever nothing is cached
get_customWidget_IgnoresRequested(r, found) ==
    IF r.q.customWidgetValue = NoWidget
    THEN updateCustomWidget([r EXCEPT !.q.isCustomWidgetRequested = TRUE], found)
    ELSE r

get_customWidget(r, found) ==
    IF ~r.q.isCustomWidgetRequested /\ r.q.customWidgetValue = NoWidget
    THEN updateCustomWidget([r EXCEPT !.q.isCustomWidgetRequested = TRUE], found)
    ELSE r

(***************************************************************************)
(* Construction.                                                           *)
(***************************************************************************)
\* "sq_" + QuestionBase.questionCounter++ : the id made of the counter's value
getQuestionId(counter) == "sq_" \o NumberToString(counter)

\* mutant: the counter is read but not advanced
NextQuestionCounter_Stuck(counter) == counter

\* QuestionBase.questionCounter++ : the counter after getQuestionId
NextQuestionCounter(counter) == counter + 1

\* the fields of a question before the constructor's body runs
FieldInitializers(name) ==
    [name |-> name,
     propertyHash |-> <<>>,
     conditionRunner |-> NoRunner,
     isCustomWidgetRequested |-> FALSE,
     customWidgetValue |-> NoWidget,
     survey |-> NoSurvey,
     callbacks |-> {},
     reentrant |-> <<>>]

\* the run context at the entry of a public operation on q
Start(q) == [q |-> q, log |-> <<>>, thrown |-> FALSE, evals |-> <<>>, returned |-> <<>>]

constructor(name, counter) == set_id(Start(FieldInitializers(name)), getQuestionId(counter))

(***************************************************************************)
(* Actions.  Publish(i, op, arg, r): question i becomes r.q and the call,  *)
(* its events and its outcome are recorded.                                *)
(***************************************************************************)
\* the last visibility the container was notified of, after the events l
NotifiedAfter(before, l) ==
    LET n == {k \in DOMAIN l : l[k].ev = "questionVisibilityChanged"}
    IN  IF n = {} THEN before
        ELSE <<l[CHOOSE k \in n : \A j \in n : j <= k].val>>

NoIndexCalls == [calls |-> 0, changes |-> 0, firings |-> 0]

Publish(i, op, arg, r) ==
    /\ questions' = [questions EXCEPT ![i] = r.q]
    /\ call' = [op |-> op, q |-> i, arg |-> arg,
                repeated |-> (call.op = op /\ call.q = i /\ call.arg = arg)]
    /\ log' = r.log
    /\ thrown' = r.thrown
    /\ evals' = r.evals
    /\ returned' = r.returned
    /\ lastNotified' = IF op = "setData" THEN <<>>
                       ELSE NotifiedAfter(lastNotified, r.log)

StyleSheetUnchanged == UNCHANGED surveyCss
IndexHistoryUnchanged == UNCHANGED visibleIndexHistory
WidgetHistoryUnchanged ==
    UNCHANGED <<resolverCalls, updateCalls, widgetReads, lookupMissed>>
IdentityUnchanged == UNCHANGED <<questionCounter, createdIds>>

SetVisible(i, val) ==
    /\ Publish(i, "visible", val, set_visible(Start(questions[i]), val))
    /\ IdentityUnchanged /\ WidgetHistoryUnchanged
    /\ StyleSheetUnchanged /\ IndexHistoryUnchanged

SetVisibleIf(i, val) ==
    /\ Publish(i, "visibleIf", val, set_visibleIf(Start(questions[i]), val))
    /\ IdentityUnchanged /\ WidgetHistoryUnchanged
    /\ StyleSheetUnchanged /\ IndexHistoryUnchanged

SetStartWithNewLine(i, val) ==
    /\ Publish(i, "startWithNewLine", val,
               set_startWithNewLine(Start(questions[i]), val))
    /\ IdentityUnchanged /\ WidgetHistoryUnchanged
    /\ StyleSheetUnchanged /\ IndexHistoryUnchanged

SetWidth(i, val) ==
    /\ Publish(i, "width", val, set_width(Start(questions[i]), val))
    /\ IdentityUnchanged /\ WidgetHistoryUnchanged
    /\ StyleSheetUnchanged /\ IndexHistoryUnchanged

SetRenderWidth(i, val) ==
    /\ Publish(i, "renderWidth", val, set_renderWidth(Start(questions[i]), val))
    /\ IdentityUnchanged /\ WidgetHistoryUnchanged
    /\ StyleSheetUnchanged /\ IndexHistoryUnchanged

SetIndent(i, val) ==
    /\ Publish(i, "indent", val, set_indent(Start(questions[i]), val))
    /\ IdentityUnchanged /\ WidgetHistoryUnchanged
    /\ StyleSheetUnchanged /\ IndexHistoryUnchanged

SetRightIndent(i, val) ==
    /\ Publish(i, "rightIndent", val, set_rightIndent(Start(questions[i]), val))
    /\ IdentityUnchanged /\ WidgetHistoryUnchanged
    /\ StyleSheetUnchanged /\ IndexHistoryUnchanged

RunCondition(i, values) ==
    /\ Publish(i, "runCondition", values, runCondition(Start(questions[i]), values))
    /\ IdentityUnchanged /\ WidgetHistoryUnchanged
    /\ StyleSheetUnchanged /\ IndexHistoryUnchanged

\* the container attaches itself to the question, or detaches
SetData(i, survey) ==
    /\ questions[i].survey # survey
    /\ Publish(i, "setData", survey, Start([questions[i] EXCEPT !.survey = survey]))
    /\ IdentityUnchanged /\ WidgetHistoryUnchanged
    /\ StyleSheetUnchanged /\ IndexHistoryUnchanged

\* a client assigns an observer function to a hook field, or clears the field
AssignCallback(i, hook, isSet) ==
    /\ (hook \in questions[i].callbacks) # isSet
    /\ Publish(i, "assignCallback", hook,
               Start([questions[i] EXCEPT
                   !.callbacks = IF isSet THEN @ \cup {hook} ELSE @ \ {hook},
                   !.reentrant = IF @ # <<>> /\ @[1].hook = hook THEN <<>> ELSE @]))
    /\ IdentityUnchanged /\ WidgetHistoryUnchanged
    /\ StyleSheetUnchanged /\ IndexHistoryUnchanged

\* a client assigns to a hook field a function that assigns visible (op is
\* "visible") or calls runCondition (op is "runCondition") on the question;
\* the functions in the other hook fields are observers
AssignReentrantCallback(i, hook, op, val, values) ==
    /\ IF questions[i].reentrant = <<>> THEN TRUE
       ELSE questions[i].reentrant[1].hook = hook
    /\ Publish(i, "assignReentrantCallback", hook,
               Start([questions[i] EXCEPT
                   !.callbacks = @ \cup {hook},
                   !.reentrant = <<[hook |-> hook, op |-> op, val |-> val,
                                    values |-> values]>>]))
    /\ IdentityUnchanged /\ WidgetHistoryUnchanged
    /\ StyleSheetUnchanged /\ IndexHistoryUnchanged

\* the call is counted, as one that changed the index when its argument
\* differs from the index current at the call, with the hook firings it made
SetVisibleIndex(i, val) ==
    /\ visibleIndexHistory[i].calls < MaxIndexCalls
    /\ LET r == setVisibleIndex(Start(questions[i]), val)
       IN  /\ Publish(i, "setVisibleIndex", val, r)
           /\ visibleIndexHistory' = [visibleIndexHistory EXCEPT ![i] =
                  [calls |-> @.calls + 1,
                   changes |-> @.changes +
                       (IF val # get_visibleIndex(questions[i]) THEN 1 ELSE 0),
                   firings |-> @.firings +
                       Cardinality({k \in DOMAIN r.log :
                                        r.log[k].ev = "visibleIndexChangedCallback"})]]
    /\ IdentityUnchanged /\ WidgetHistoryUnchanged /\ StyleSheetUnchanged

\* a renderer reads cssClasses
ReadCssClasses(i, strictMode, customization) ==
    /\ LET res == cssClasses(questions[i], surveyCss, strictMode, customization)
       IN  /\ Publish(i, "cssClasses",
                      [strictMode |-> strictMode, customization |-> customization],
                      [Start(questions[i]) EXCEPT
                          !.log = res.log,
                          !.thrown = res.thrown,
                          !.returned = IF res.thrown THEN <<>> ELSE <<res.classes>>])
           /\ surveyCss' = res.css
    /\ IdentityUnchanged /\ WidgetHistoryUnchanged /\ IndexHistoryUnchanged

Focus(i, onError) ==
    /\ Publish(i, "focus", onError, focus(Start(questions[i]), onError))
    /\ IdentityUnchanged /\ WidgetHistoryUnchanged
    /\ StyleSheetUnchanged /\ IndexHistoryUnchanged

OnSurveyLoad(i) ==
    /\ Publish(i, "onSurveyLoad", "", onSurveyLoad(Start(questions[i])))
    /\ IdentityUnchanged /\ WidgetHistoryUnchanged
    /\ StyleSheetUnchanged /\ IndexHistoryUnchanged

OnReadOnlyChanged(i) ==
    /\ Publish(i, "onReadOnlyChanged", "", onReadOnlyChanged(Start(questions[i])))
    /\ IdentityUnchanged /\ WidgetHistoryUnchanged
    /\ StyleSheetUnchanged /\ IndexHistoryUnchanged

OnLocaleChanged(i, surveyLocale) ==
    /\ Publish(i, "onLocaleChanged", surveyLocale,
               onLocaleChanged(Start(questions[i]), surveyLocale))
    /\ IdentityUnchanged /\ WidgetHistoryUnchanged
    /\ StyleSheetUnchanged /\ IndexHistoryUnchanged

SetId(i, val) ==
    /\ Publish(i, "id", val, set_id(Start(questions[i]), val))
    /\ IdentityUnchanged /\ WidgetHistoryUnchanged
    /\ StyleSheetUnchanged /\ IndexHistoryUnchanged

\* the number of resolver invocations among the events l, and whether one missed
Lookups(l) == Cardinality({k \in DOMAIN l : l[k].ev = "getCustomWidget"})
Missed(l) == \E k \in DOMAIN l : l[k].ev = "getCustomWidget" /\ l[k].ret = NoWidget

ReadCustomWidget(i, found) ==
    /\ widgetReads[i] < MaxWidgetReads
    /\ LET r == get_customWidget(Start(questions[i]), found)
       IN  /\ Publish(i, "customWidget", found, r)
           /\ resolverCalls' = [resolverCalls EXCEPT ![i] = @ + Lookups(r.log)]
           /\ lookupMissed' = [lookupMissed EXCEPT ![i] = @ \/ Missed(r.log)]
    /\ widgetReads' = [widgetReads EXCEPT ![i] = @ + 1]
    /\ UNCHANGED updateCalls
    /\ IdentityUnchanged /\ StyleSheetUnchanged /\ IndexHistoryUnchanged

UpdateCustomWidget(i, found) ==
    /\ updateCalls[i] < MaxUpdateCalls
    /\ LET r == updateCustomWidget(Start(questions[i]), found)
       IN  /\ Publish(i, "updateCustomWidget", found, r)
           /\ resolverCalls' = [resolverCalls EXCEPT ![i] = @ + Lookups(r.log)]
           /\ lookupMissed' = [lookupMissed EXCEPT ![i] = @ \/ Missed(r.log)]
    /\ updateCalls' = [updateCalls EXCEPT ![i] = @ + 1]
    /\ UNCHANGED widgetReads
    /\ IdentityUnchanged /\ StyleSheetUnchanged /\ IndexHistoryUnchanged

\* new QuestionBase(name)
Construct(name) ==
    /\ Len(questions) < MaxQuestions
    /\ LET r == constructor(name, questionCounter)
       IN  /\ questions' = Append(questions, r.q)
           /\ createdIds' = Append(createdIds, get_id(r.q))
           /\ call' = [op |-> "constructor", q |-> Len(questions) + 1, arg |-> name,
                       repeated |-> FALSE]
           /\ log' = r.log
           /\ thrown' = r.thrown
           /\ evals' = r.evals
           /\ returned' = r.returned
    /\ questionCounter' = NextQuestionCounter(questionCounter)
    /\ resolverCalls' = Append(resolverCalls, 0)
    /\ updateCalls' = Append(updateCalls, 0)
    /\ widgetReads' = Append(widgetReads, 0)
    /\ lookupMissed' = Append(lookupMissed, FALSE)
    /\ visibleIndexHistory' = Append(visibleIndexHistory, NoIndexCalls)
    /\ UNCHANGED <<surveyCss, lastNotified>>


(***************************************************************************)
(* One question, constructed: the state every single-question              *)
(* specification starts in.                                                *)
(***************************************************************************)
InitOneQuestion ==
    /\ questionCounter = NextQuestionCounter(InitialQuestionCounter)
    /\ questions = <<constructor("question", InitialQuestionCounter).q>>
    /\ createdIds = <<getQuestionId(InitialQuestionCounter)>>
    /\ call = [op |-> "constructor", q |-> 1, arg |-> "question", repeated |-> FALSE]
    /\ log = <<>>
    /\ thrown = FALSE
    /\ resolverCalls = <<0>>
    /\ updateCalls = <<0>>
    /\ widgetReads = <<0>>
    /\ lookupMissed = <<FALSE>>
    /\ surveyCss = NoStyleSheet
    /\ returned = <<>>
    /\ evals = <<>>
    /\ lastNotified = <<>>
    /\ visibleIndexHistory = <<NoIndexCalls>>

(***************************************************************************)
(* Spec: visibility and the condition gate of one question.                *)
(***************************************************************************)
Init == InitOneQuestion

Next ==
    \/ \E i \in DOMAIN questions, val \in BOOLEAN : SetVisible(i, val)
    \/ \E i \in DOMAIN questions, val \in Expressions : SetVisibleIf(i, val)
    \/ \E i \in DOMAIN questions, values \in ValueMaps : RunCondition(i, values)
    \/ \E i \in DOMAIN questions, survey \in {NoSurvey, Survey} : SetData(i, survey)
    \/ \E i \in DOMAIN questions, hook \in VisibilityHooks, isSet \in BOOLEAN :
           AssignCallback(i, hook, isSet)

Spec == Init /\ [][Next]_vars

(***************************************************************************)
(* SpecProps: the change-gated property setters of one question.           *)
(***************************************************************************)
NextProps ==
    \/ \E i \in DOMAIN questions, val \in BOOLEAN : SetVisible(i, val)
    \/ \E i \in DOMAIN questions, val \in BOOLEAN : SetStartWithNewLine(i, val)
    \/ \E i \in DOMAIN questions, val \in RenderWidths : SetRenderWidth(i, val)
    \/ \E i \in DOMAIN questions, val \in Indents : SetIndent(i, val)
    \/ \E i \in DOMAIN questions, val \in Indents : SetRightIndent(i, val)
    \/ \E i \in DOMAIN questions, survey \in {NoSurvey, Survey} : SetData(i, survey)
    \/ \E i \in DOMAIN questions, hook \in VisibilityHooks \cup LayoutHooks,
              isSet \in BOOLEAN : AssignCallback(i, hook, isSet)

SpecProps == InitOneQuestion /\ [][NextProps]_vars

(***************************************************************************)
(* SpecWidth: the width, renderWidth and indent setters of one question.   *)
(***************************************************************************)
NextWidth ==
    \/ \E i \in DOMAIN questions, val \in Widths : SetWidth(i, val)
    \/ \E i \in DOMAIN questions, val \in RenderWidths : SetRenderWidth(i, val)
    \/ \E i \in DOMAIN questions, val \in Indents : SetIndent(i, val)
    \/ \E i \in DOMAIN questions, isSet \in BOOLEAN :
           AssignCallback(i, "renderWidthChangedCallback", isSet)

SpecWidth == InitOneQuestion /\ [][NextWidth]_vars

(***************************************************************************)
(* SpecIndex: the visible index of one question.                           *)
(***************************************************************************)
NextIndex ==
    \/ \E i \in DOMAIN questions, val \in VisibleIndexes : SetVisibleIndex(i, val)
    \/ \E i \in DOMAIN questions, isSet \in BOOLEAN :
           AssignCallback(i, "visibleIndexChangedCallback", isSet)

SpecIndex == InitOneQuestion /\ [][NextIndex]_vars

(***************************************************************************)
(* SpecNotify: the container's notification entry points of one question.  *)
(***************************************************************************)
NextNotify ==
    \/ \E i \in DOMAIN questions, onError \in BOOLEAN : Focus(i, onError)
    \/ \E i \in DOMAIN questions : OnSurveyLoad(i)
    \/ \E i \in DOMAIN questions : OnReadOnlyChanged(i)
    \/ \E i \in DOMAIN questions, surveyLocale \in Locales :
           OnLocaleChanged(i, surveyLocale)
    \/ \E i \in DOMAIN questions, survey \in {NoSurvey, Survey} : SetData(i, survey)
    \/ \E i \in DOMAIN questions, hook \in NotifyHooks, isSet \in BOOLEAN :
           AssignCallback(i, hook, isSet)

SpecNotify == InitOneQuestion /\ [][NextNotify]_vars

(***************************************************************************)
(* SpecReentrant: visibility and the condition gate of one question whose  *)
(* visibility hooks may call back into the question.                       *)
(***************************************************************************)
NextReentrant ==
    \/ \E i \in DOMAIN questions, val \in BOOLEAN : SetVisible(i, val)
    \/ \E i \in DOMAIN questions, val \in Expressions : SetVisibleIf(i, val)
    \/ \E i \in DOMAIN questions, values \in ValueMaps : RunCondition(i, values)
    \/ \E i \in DOMAIN questions, survey \in {NoSurvey, Survey} : SetData(i, survey)
    \/ \E i \in DOMAIN questions, hook \in VisibilityHooks, isSet \in BOOLEAN :
           AssignCallback(i, hook, isSet)
    \/ \E i \in DOMAIN questions, hook \in VisibilityHooks, val \in BOOLEAN :
           AssignReentrantCallback(i, hook, "visible", val, [x |-> 0])
    \/ \E i \in DOMAIN questions, hook \in VisibilityHooks, values \in ValueMaps :
           AssignReentrantCallback(i, hook, "runCondition", FALSE, values)

SpecReentrant == InitOneQuestion /\ [][NextReentrant]_vars

(***************************************************************************)
(* SpecCss: the style classes of one question, for every style sheet.      *)
(***************************************************************************)
InitCss ==
    /\ questionCounter = NextQuestionCounter(InitialQuestionCounter)
    /\ questions = <<constructor("question", InitialQuestionCounter).q>>
    /\ createdIds = <<getQuestionId(InitialQuestionCounter)>>
    /\ call = [op |-> "constructor", q |-> 1, arg |-> "question", repeated |-> FALSE]
    /\ log = <<>>
    /\ thrown = FALSE
    /\ resolverCalls = <<0>>
    /\ updateCalls = <<0>>
    /\ widgetReads = <<0>>
    /\ lookupMissed = <<FALSE>>
    /\ surveyCss \in StyleSheets
    /\ returned = <<>>
    /\ evals = <<>>
    /\ lastNotified = <<>>
    /\ visibleIndexHistory = <<NoIndexCalls>>

NextCss ==
    \/ \E i \in DOMAIN questions, strictMode \in BOOLEAN,
              customization \in Customizations :
           ReadCssClasses(i, strictMode, customization)
    \/ \E i \in DOMAIN questions, survey \in {NoSurvey, Survey} : SetData(i, survey)

SpecCss == InitCss /\ [][NextCss]_vars

(***************************************************************************)
(* SpecWidget: the lazy custom-widget binding of one question.             *)
(***************************************************************************)
NextWidget ==
    \/ \E i \in DOMAIN questions, found \in Widgets \cup {NoWidget} :
           ReadCustomWidget(i, found)
    \/ \E i \in DOMAIN questions, found \in Widgets \cup {NoWidget} :
           UpdateCustomWidget(i, found)

SpecWidget == InitOneQuestion /\ [][NextWidget]_vars

(***************************************************************************)
(* SpecId: the questions of one process, from its start.                   *)
(***************************************************************************)
InitProcess ==
    /\ questionCounter = InitialQuestionCounter
    /\ questions = <<>>
    /\ createdIds = <<>>
    /\ call = [op |-> "start", q |-> 0, arg |-> "", repeated |-> FALSE]
    /\ log = <<>>
    /\ thrown = FALSE
    /\ resolverCalls = <<>>
    /\ updateCalls = <<>>
    /\ widgetReads = <<>>
    /\ lookupMissed = <<>>
    /\ surveyCss = NoStyleSheet
    /\ returned = <<>>
    /\ evals = <<>>
    /\ lastNotified = <<>>
    /\ visibleIndexHistory = <<>>

NextId ==
    \/ \E name \in Names : Construct(name)
    \/ \E i \in DOMAIN questions, val \in AssignableIds : SetId(i, val)
    \/ \E i \in DOMAIN questions, val \in BOOLEAN : SetVisible(i, val)

SpecId == InitProcess /\ [][NextId]_vars

(***************************************************************************)
(* Helpers of the properties below.                                        *)
(***************************************************************************)
\* the number of events named ev in the event sequence l
Count(l, ev) == Cardinality({k \in DOMAIN l : l[k].ev = ev})

\* the positions of the events named ev in l
Positions(l, ev) == {k \in DOMAIN l : l[k].ev = ev}

\* c is an assignment to a change-gated property of q of the value it reads as
AssignsCurrentValue(q, c) ==
    CASE c.op = "visible" -> c.arg = get_visible(q)
      [] c.op = "renderWidth" -> c.arg = get_renderWidth(q)
      [] c.op = "indent" -> c.arg = get_indent(q)
      [] c.op = "rightIndent" -> c.arg = get_rightIndent(q)
      [] c.op = "startWithNewLine" -> c.arg = get_startWithNewLine(q)
      [] OTHER -> FALSE

\* whether property name has a stored value, and the value if it has
SameStored(q1, q2, name) ==
    /\ (name \in DOMAIN q1.propertyHash) = (name \in DOMAIN q2.propertyHash)
    /\ name \in DOMAIN q1.propertyHash => q1.propertyHash[name] = q2.propertyHash[name]

(***************************************************************************)
(* C1: assigning visible, renderWidth, indent, rightIndent or              *)
(* startWithNewLine the value it currently reads as (also the default of a *)
(* property never set) fires no hook, does not notify the container and    *)
(* leaves the question's stored state unchanged.                           *)
(***************************************************************************)
C1_SameValueIsNoOp ==
    [][AssignsCurrentValue(questions[call'.q], call')
          => /\ log' = <<>>
             /\ questions' = questions
             /\ ~thrown']_vars

\* visible, never stored, was assigned its default with the container attached
\* and both hooks set, after indent had been given a stored value
C1_Witness ==
    /\ call.op = "visible" /\ call.arg = TRUE
    /\ "visible" \notin DOMAIN questions[call.q].propertyHash
    /\ "indent" \in DOMAIN questions[call.q].propertyHash
    /\ questions[call.q].survey = Survey
    /\ VisibilityHooks \subseteq questions[call.q].callbacks
    /\ log = <<>>

(***************************************************************************)
(* C2: an assignment that changes visible produces, in this order, the     *)
(* visibility-change hook, the row-visibility-change hook and then, only   *)
(* with a container attached, the container's questionVisibilityChanged;   *)
(* the container is never notified before both hooks, nor when detached.   *)
(***************************************************************************)
C2_VisibleEventOrder ==
    [][(call'.op \in {"visible", "runCondition"}
          /\ get_visible(questions'[call'.q]) # get_visible(questions[call'.q]))
          => /\ Len(log') >= 2
             /\ log'[1].ev = "visibilityChangedCallback"
             /\ log'[2].ev = "rowVisibilityChangedCallback"
             /\ \A n \in Positions(log', "questionVisibilityChanged") :
                    /\ questions[call'.q].survey # NoSurvey
                    /\ n = 3
             /\ Len(log') = IF questions[call'.q].survey # NoSurvey THEN 3 ELSE 2
             /\ Len(log') = 3 => log'[3].ev = "questionVisibilityChanged"]_vars

\* visible was changed with a container attached: hook, hook, notification
C2_Witness ==
    /\ call.op = "visible"
    /\ Len(log) = 3
    /\ log[1].ev = "visibilityChangedCallback" /\ log[1].ran
    /\ log[2].ev = "rowVisibilityChangedCallback" /\ log[2].ran
    /\ log[3].ev = "questionVisibilityChanged"

(***************************************************************************)
(* C3: with an empty visibleIf, runCondition leaves visible (and all of    *)
(* the question) unchanged, fires no hook, notifies nobody and constructs  *)
(* no evaluator.                                                           *)
(***************************************************************************)
C3_EmptyVisibleIfIsNoOp ==
    [][(call'.op = "runCondition" /\ get_visibleIf(questions[call'.q]) = "")
          => /\ questions' = questions
             /\ get_visible(questions'[call'.q]) = get_visible(questions[call'.q])
             /\ questions'[call'.q].conditionRunner = questions[call'.q].conditionRunner
             /\ log' = <<>>
             /\ ~thrown']_vars

\* runCondition ran on a hidden question with empty visibleIf and no evaluator
C3_Witness ==
    /\ call.op = "runCondition"
    /\ get_visibleIf(questions[call.q]) = ""
    /\ questions[call.q].conditionRunner = NoRunner
    /\ get_visible(questions[call.q]) = FALSE
    /\ questions[call.q].survey = Survey
    /\ log = <<>>

(***************************************************************************)
(* C4: with a non-empty visibleIf and an evaluator that returns, visible   *)
(* after runCondition(values) is what the evaluator returns for the        *)
(* current visibleIf and values; if that differs from visible before, the  *)
(* visibility hook and the row-visibility hook fire exactly once each,     *)
(* otherwise neither fires.                                                *)
(***************************************************************************)
C4_RunConditionAssignsResult ==
    [][(call'.op = "runCondition"
          /\ get_visibleIf(questions[call'.q]) # ""
          /\ ~RunnerFails(get_visibleIf(questions[call'.q]), call'.arg))
          => LET before == questions[call'.q]
                 after == questions'[call'.q]
                 result == RunnerResult(get_visibleIf(before), call'.arg)
             IN  /\ ~thrown'
                 /\ get_visible(after) = result
                 /\ Count(log', "visibilityChangedCallback")
                        = IF result # get_visible(before) THEN 1 ELSE 0
                 /\ Count(log', "rowVisibilityChangedCallback")
                        = IF result # get_visible(before) THEN 1 ELSE 0]_vars

\* runCondition made the question visible and both hooks ran once
C4_Witness ==
    /\ call.op = "runCondition" /\ ~thrown
    /\ get_visibleIf(questions[call.q]) = "{x} = 0"
    /\ get_visible(questions[call.q]) = TRUE
    /\ Count(log, "visibilityChangedCallback") = 1
    /\ Count(log, "rowVisibilityChangedCallback") = 1
    /\ \A k \in DOMAIN log : log[k].ev \in VisibilityHooks => log[k].ran

(***************************************************************************)
(* C5: runCondition is idempotent: a second runCondition with the same     *)
(* values, directly after the first (visibleIf unchanged), leaves visible  *)
(* as it was and fires no hook and no container notification.              *)
(***************************************************************************)
C5_RunConditionIdempotent ==
    [][(call'.op = "runCondition" /\ call'.repeated)
          => /\ get_visible(questions'[call'.q]) = get_visible(questions[call'.q])
             /\ log' = <<>>]_vars

\* the second of two equal runCondition calls, on a question the condition
\* has made hidden, with container and hooks in place
C5_Witness ==
    /\ call.op = "runCondition" /\ call.repeated /\ ~thrown
    /\ get_visibleIf(questions[call.q]) = "{x} = 1"
    /\ call.arg.x = 0
    /\ get_visible(questions[call.q]) = FALSE
    /\ questions[call.q].survey = Survey
    /\ VisibilityHooks \subseteq questions[call.q].callbacks
    /\ log = <<>>

(***************************************************************************)
(* C6: when the evaluator fails during runCondition the failure reaches    *)
(* the caller and visible keeps its value: no hook fires, the container is *)
(* not notified, and no fallback value is written to visible.              *)
(***************************************************************************)
C6_EvaluatorFailurePropagates ==
    [][(call'.op = "runCondition"
          /\ get_visibleIf(questions[call'.q]) # ""
          /\ RunnerFails(get_visibleIf(questions[call'.q]), call'.arg))
          => /\ thrown'
             /\ SameStored(questions[call'.q], questions'[call'.q], "visible")
             /\ get_visible(questions'[call'.q]) = get_visible(questions[call'.q])
             /\ log' = <<>>]_vars

\* the evaluator failed on a hidden question with the container attached
C6_Witness ==
    /\ call.op = "runCondition" /\ thrown
    /\ get_visible(questions[call.q]) = FALSE
    /\ questions[call.q].survey = Survey
    /\ VisibilityHooks \subseteq questions[call.q].callbacks
    /\ log = <<>>

(***************************************************************************)
(* C7: as long as updateCustomWidget has not been called on a question,    *)
(* all the reads of customWidget together invoke the resolver at most once *)
(* (exactly once from the first read on, also when it found no match);     *)
(* every updateCustomWidget invokes the resolver exactly once and the      *)
(* cached binding is then what that invocation returned.                   *)
(***************************************************************************)
C7_ResolverInvocations ==
    [][\A i \in DOMAIN questions' :
          /\ updateCalls'[i] = 0
                => resolverCalls'[i] = IF widgetReads'[i] > 0 THEN 1 ELSE 0
          /\ (call'.op = "updateCustomWidget" /\ call'.q = i)
                => /\ resolverCalls'[i] = resolverCalls[i] + 1
                   /\ Lookups(log') = 1
                   /\ questions'[i].customWidgetValue = call'.arg]_vars

\* two or more reads invoked the resolver once; then the one updateCustomWidget
\* invoked it again and cached the widget it returned
C7_Witness ==
    /\ call.op = "updateCustomWidget"
    /\ widgetReads[call.q] >= 2
    /\ updateCalls[call.q] = 1
    /\ resolverCalls[call.q] = 2
    /\ lookupMissed[call.q]
    /\ questions[call.q].customWidgetValue \in Widgets

(***************************************************************************)
(* C8 as stated: once a resolver lookup for the question has returned no   *)
(* match, a later read of customWidget does not invoke the resolver, and   *)
(* the requested flag, once true, never becomes false.                     *)
(***************************************************************************)
C8_NoRetryAfterAnyMiss ==
    [][\A i \in DOMAIN questions :
          /\ (call'.op = "customWidget" /\ call'.q = i /\ lookupMissed[i])
                => Lookups(log') = 0
          /\ questions[i].isCustomWidgetRequested
                => questions'[i].isCustomWidgetRequested]_vars

(***************************************************************************)
(* C8 amended: once a read of customWidget has made its lookup (requested  *)
(* is true), whatever it returned, no later read invokes the resolver, and *)
(* the requested flag, once true, never becomes false, under any           *)
(* interleaving of reads and updateCustomWidget calls.                     *)
(***************************************************************************)
C8_NoRetryAfterRequested ==
    [][\A i \in DOMAIN questions :
          /\ (call'.op = "customWidget" /\ call'.q = i
                /\ questions[i].isCustomWidgetRequested)
                => Lookups(log') = 0
          /\ questions[i].isCustomWidgetRequested
                => questions'[i].isCustomWidgetRequested]_vars

\* a read after a read-issued lookup that found no match, with an
\* updateCustomWidget in between that found none either: no further lookup
C8_Witness ==
    /\ call.op = "customWidget"
    /\ widgetReads[call.q] >= 2
    /\ updateCalls[call.q] >= 1
    /\ resolverCalls[call.q] = 1 + updateCalls[call.q]
    /\ questions[call.q].isCustomWidgetRequested
    /\ questions[call.q].customWidgetValue = NoWidget
    /\ log = <<>>

(***************************************************************************)
(* C9: every construction assigns an id that is non-empty and differs from *)
(* the id assigned by every other construction of the process, and         *)
(* advances the shared counter by exactly one.                             *)
(***************************************************************************)
C9_FreshIds ==
    [][call'.op = "constructor"
          => LET n == Len(questions')
             IN  /\ n = Len(questions) + 1
                 /\ get_id(questions'[n]) = createdIds'[n]
                 /\ createdIds'[n] # ""
                 /\ \A j \in 1..(n - 1) : createdIds'[j] # createdIds'[n]
                 /\ questionCounter' = questionCounter + 1
                 /\ questionCounter' = InitialQuestionCounter + n]_vars

\* the last of at least three constructions
C9_Witness ==
    /\ call.op = "constructor"
    /\ Len(questions) >= 3
    /\ Cardinality({createdIds[j] : j \in DOMAIN createdIds}) = Len(questions)
    /\ get_id(questions[Len(questions)]) = createdIds[Len(questions)]

(***************************************************************************)
(* C10 as stated: no public operation on a constructed question, the id    *)
(* setter included, changes its id.                                        *)
(***************************************************************************)
C10_IdNeverChanges ==
    [][\A i \in DOMAIN questions : get_id(questions'[i]) = get_id(questions[i])]_vars

(***************************************************************************)
(* C10 amended: the id is assigned at construction and no public operation *)
(* other than the public id setter changes it afterwards; an assignment    *)
(* through the id setter replaces the id of that question, and of no       *)
(* other, by the value assigned.                                           *)
(***************************************************************************)
C10_IdChangesOnlyBySetter ==
    [][\A i \in DOMAIN questions :
          /\ (call'.op # "id" \/ call'.q # i)
                => get_id(questions'[i]) = get_id(questions[i])
          /\ (call'.op = "id" /\ call'.q = i)
                => get_id(questions'[i]) = call'.arg]_vars

\* the id setter has replaced the first question's id; the second keeps the
\* id its construction assigned, also after an assignment to its visible
C10_Witness ==
    /\ Len(questions) >= 2
    /\ get_id(questions[1]) = "myId" /\ createdIds[1] # "myId"
    /\ get_id(questions[2]) = createdIds[2]
    /\ call.op = "visible" /\ call.q = 2 /\ log # <<>>

(***************************************************************************)
(* C14: indent and rightIndent are independent triggers of one shared      *)
(* hook: an assignment that changes indent fires the render-width-change   *)
(* hook exactly once and nothing else, an assignment that changes          *)
(* rightIndent fires the same hook exactly once and nothing else, and      *)
(* changing one of the two leaves the stored value of the other as it was. *)
(***************************************************************************)
C14_SharedHookIndependentTriggers ==
    [][LET q == questions[call'.q]
           q2 == questions'[call'.q]
       IN  /\ (call'.op = "indent" /\ call'.arg # get_indent(q))
                  => /\ Len(log') = 1
                     /\ log'[1].ev = "renderWidthChangedCallback"
                     /\ log'[1].ran = ("renderWidthChangedCallback" \in q.callbacks)
                     /\ get_indent(q2) = call'.arg
                     /\ SameStored(q, q2, "rightIndent")
                     /\ get_rightIndent(q2) = get_rightIndent(q)
           /\ (call'.op = "rightIndent" /\ call'.arg # get_rightIndent(q))
                  => /\ Len(log') = 1
                     /\ log'[1].ev = "renderWidthChangedCallback"
                     /\ log'[1].ran = ("renderWidthChangedCallback" \in q.callbacks)
                     /\ get_rightIndent(q2) = call'.arg
                     /\ SameStored(q, q2, "indent")
                     /\ get_indent(q2) = get_indent(q)]_vars

\* rightIndent was changed back to 0 while indent is stored as 1, and the set
\* hook ran once
C14_Witness ==
    /\ call.op = "rightIndent" /\ call.arg = 0
    /\ "rightIndent" \in DOMAIN questions[call.q].propertyHash
    /\ "indent" \in DOMAIN questions[call.q].propertyHash
    /\ get_indent(questions[call.q]) = 1
    /\ get_rightIndent(questions[call.q]) = 0
    /\ Len(log) = 1
    /\ log[1].ev = "renderWidthChangedCallback" /\ log[1].ran

(***************************************************************************)
(* C19: in every reachable state the capability queries of a base question *)
(* give fixed answers, independent of property assignments, runCondition   *)
(* calls and container attachment: getAllErrors is empty, hasErrors is     *)
(* false, currentErrorCount is 0, hasTitle, hasDescription, hasInput and   *)
(* hasComment are false, and isReadOnly is true.                           *)
(***************************************************************************)
C19_FixedCapabilityAnswers ==
    \A i \in DOMAIN questions :
        /\ getAllErrors(questions[i]) = <<>>
        /\ \A fire \in BOOLEAN : hasErrors(questions[i], fire) = FALSE
        /\ get_currentErrorCount(questions[i]) = 0
        /\ get_hasTitle(questions[i]) = FALSE
        /\ get_hasDescription(questions[i]) = FALSE
        /\ get_hasInput(questions[i]) = FALSE
        /\ get_hasComment(questions[i]) = FALSE
        /\ get_isReadOnly(questions[i]) = TRUE

\* C19 as stated: isReadOnly is false like the other answers
C19_AllAnswersFalse ==
    \A i \in DOMAIN questions :
        /\ getAllErrors(questions[i]) = <<>>
        /\ \A fire \in BOOLEAN : hasErrors(questions[i], fire) = FALSE
        /\ get_currentErrorCount(questions[i]) = 0
        /\ get_hasTitle(questions[i]) = FALSE
        /\ get_hasDescription(questions[i]) = FALSE
        /\ get_hasInput(questions[i]) = FALSE
        /\ get_hasComment(questions[i]) = FALSE
        /\ get_isReadOnly(questions[i]) = FALSE

\* a question hidden by runCondition with a container attached answers the same
C19_Witness ==
    /\ call.op = "runCondition"
    /\ questions[call.q].survey = Survey
    /\ questions[call.q].conditionRunner # NoRunner
    /\ get_visible(questions[call.q]) = FALSE
    /\ get_isReadOnly(questions[call.q]) = TRUE
    /\ get_hasInput(questions[call.q]) = FALSE
    /\ get_currentErrorCount(questions[call.q]) = 0

\* the hook events an assignment that changes indent produces on q
IndentHookEvents(q) ==
    LET l == set_indent(Start(q), IF get_indent(q) = 0 THEN 1 ELSE 0).log
    IN  {l[k].ev : k \in DOMAIN l}

(***************************************************************************)
(* C17 as stated: an assignment that changes width fires exactly one hook, *)
(* assigning width its current value fires nothing, an assignment that     *)
(* changes renderWidth fires exactly one hook which is not a hook that     *)
(* indent fires, and assigning renderWidth its current value fires nothing.*)
(***************************************************************************)
C17_DedicatedHooks ==
    [][LET q == questions[call'.q]
       IN  /\ (call'.op = "width" /\ call'.arg # get_width(q)) => Len(log') = 1
           /\ (call'.op = "width" /\ call'.arg = get_width(q)) => log' = <<>>
           /\ (call'.op = "renderWidth" /\ call'.arg # get_renderWidth(q))
                  => /\ Len(log') = 1
                     /\ log'[1].ev \notin IndentHookEvents(q)
           /\ (call'.op = "renderWidth" /\ call'.arg = get_renderWidth(q))
                  => log' = <<>>]_vars

(***************************************************************************)
(* C17: every assignment to width, changing or not, stores the value and   *)
(* fires no hook; an assignment that changes renderWidth fires the         *)
(* render-width-change hook exactly once, which is the hook a change of    *)
(* indent fires, and assigning renderWidth its current value fires nothing *)
(* and changes nothing.                                                    *)
(***************************************************************************)
C17_WidthSilentRenderWidthShared ==
    [][LET q == questions[call'.q]
           q2 == questions'[call'.q]
       IN  /\ call'.op = "width"
                  => /\ log' = <<>>
                     /\ "width" \in DOMAIN q2.propertyHash
                     /\ get_width(q2) = call'.arg
           /\ (call'.op = "renderWidth" /\ call'.arg # get_renderWidth(q))
                  => /\ Len(log') = 1
                     /\ log'[1].ev = "renderWidthChangedCallback"
                     /\ log'[1].ran = ("renderWidthChangedCallback" \in q.callbacks)
                     /\ log'[1].ev \in IndentHookEvents(q)
                     /\ get_renderWidth(q2) = call'.arg
           /\ (call'.op = "renderWidth" /\ call'.arg = get_renderWidth(q))
                  => log' = <<>> /\ q2 = q]_vars

\* width was changed from "" to "100px" with the render-width hook set: no event
C17_Witness ==
    /\ call.op = "width" /\ call.arg = "100px"
    /\ ~call.repeated
    /\ get_width(questions[call.q]) = "100px"
    /\ "renderWidthChangedCallback" \in questions[call.q].callbacks
    /\ get_renderWidth(questions[call.q]) = "50%"
    /\ log = <<>>

(***************************************************************************)
(* C13: setVisibleIndex(n) always returns the same value; when n equals    *)
(* the current visibleIndex (-1 until one is stored) the call changes      *)
(* nothing and fires nothing, otherwise visibleIndex becomes n and the     *)
(* visible-index-change hook fires exactly once; so at every moment the    *)
(* number of hook firings equals the number of calls whose argument        *)
(* differed from the index current at the call.                            *)
(***************************************************************************)
C13_SetVisibleIndex ==
    [][/\ call'.op = "setVisibleIndex" =>
           LET q == questions[call'.q]
               q2 == questions'[call'.q]
           IN  /\ returned' = <<SetVisibleIndexResult>>
               /\ call'.arg = get_visibleIndex(q) => log' = <<>> /\ q2 = q
               /\ call'.arg # get_visibleIndex(q)
                      => /\ get_visibleIndex(q2) = call'.arg
                         /\ Len(log') = 1
                         /\ log'[1].ev = "visibleIndexChangedCallback"
                         /\ log'[1].ran = ("visibleIndexChangedCallback" \in q.callbacks)
       /\ \A i \in DOMAIN visibleIndexHistory' :
              visibleIndexHistory'[i].firings = visibleIndexHistory'[i].changes]_vars

\* four calls, the last repeating the index of the one before: two of them
\* changed the index (one back to -1) and the hook fired twice
C13_Witness ==
    /\ call.op = "setVisibleIndex" /\ call.repeated
    /\ log = <<>>
    /\ returned = <<SetVisibleIndexResult>>
    /\ get_visibleIndex(questions[call.q]) = DefaultVisibleIndex
    /\ "visibleIndex" \in DOMAIN questions[call.q].propertyHash
    /\ visibleIndexHistory[call.q] = [calls |-> 4, changes |-> 2, firings |-> 2]

\* the hook the spec attributes to a notification entry point
EntryPointHook(op) ==
    CASE op = "focus" -> "focusCallback"
      [] op = "onSurveyLoad" -> "surveyLoadCallback"
      [] op = "onReadOnlyChanged" -> "readOnlyChangedCallback"

\* the call fired the localeChanged event once, with the element and the locale
\* its getLocale() gives
FiresLocaleChangedOnce(q, c, l) ==
    /\ Len(l) = 1
    /\ l[1].ev = "localeChanged"
    /\ l[1].sender = q
    /\ l[1].options = (IF q.survey = NoSurvey THEN "" ELSE c.arg)

(***************************************************************************)
(* C18 as stated: each call to focus, onSurveyLoad or onReadOnlyChanged    *)
(* fires that entry point's hook exactly once, the hook running when it is *)
(* set and nothing happening when it is unset, and each call to            *)
(* onLocaleChanged fires localeChanged exactly once with the element and   *)
(* the current locale.                                                     *)
(***************************************************************************)
C18_EveryEntryPointFiresItsHook ==
    [][LET q == questions[call'.q]
       IN  /\ call'.op \in {"focus", "onSurveyLoad", "onReadOnlyChanged"}
                  => /\ Len(log') = 1
                     /\ log'[1].ev = EntryPointHook(call'.op)
                     /\ log'[1].ran = (EntryPointHook(call'.op) \in q.callbacks)
                     /\ questions'[call'.q] = q /\ ~thrown'
           /\ call'.op = "onLocaleChanged"
                  => FiresLocaleChangedOnce(q, call', log')]_vars

(***************************************************************************)
(* C18: each call to onSurveyLoad fires surveyLoadCallback exactly once,   *)
(* the hook running when it is set and nothing happening when it is unset; *)
(* focus and onReadOnlyChanged fire nothing, whether or not focusCallback  *)
(* and readOnlyChangedCallback are set; each call to onLocaleChanged fires *)
(* localeChanged exactly once with the element and the current locale,     *)
(* which is the container's locale or "" with no container.  None of the   *)
(* four changes the question.                                              *)
(***************************************************************************)
C18_EntryPoints ==
    [][LET q == questions[call'.q]
       IN  /\ call'.op = "onSurveyLoad"
                  => /\ Len(log') = 1
                     /\ log'[1].ev = "surveyLoadCallback"
                     /\ log'[1].ran = ("surveyLoadCallback" \in q.callbacks)
           /\ call'.op \in {"focus", "onReadOnlyChanged"} => log' = <<>>
           /\ call'.op = "onLocaleChanged"
                  => FiresLocaleChangedOnce(q, call', log')
           /\ call'.op \in {"focus", "onSurveyLoad", "onReadOnlyChanged",
                           "onLocaleChanged"}
                  => questions'[call'.q] = q /\ ~thrown']_vars

\* focus was called with all three hooks set and fired nothing
C18_Witness ==
    /\ call.op = "focus"
    /\ NotifyHooks \subseteq questions[call.q].callbacks
    /\ questions[call.q].survey = Survey
    /\ log = <<>>

\* the positions of the evaluator events named ev in e
EvalPositions(e, ev) == {k \in DOMAIN e : e[k].ev = ev}

(***************************************************************************)
(* C15: over any sequence of visibleIf assignments and runCondition calls  *)
(* the evaluator is constructed at most once, by the first runCondition    *)
(* that finds a non-empty visibleIf; once it exists it is never discarded  *)
(* nor replaced by another instance; and at every evaluation its           *)
(* expression text equals the question's current visibleIf, also when      *)
(* visibleIf was changed after the evaluator was built.                    *)
(***************************************************************************)
C15_OneEvaluatorInSync ==
    [][LET q == questions[call'.q]
           q2 == questions'[call'.q]
           news == EvalPositions(evals', "new")
           runs == EvalPositions(evals', "run")
       IN  /\ Cardinality(news) <= 1
           /\ news # {} <=> /\ call'.op = "runCondition"
                            /\ get_visibleIf(q) # ""
                            /\ q.conditionRunner = NoRunner
           /\ q.conditionRunner # NoRunner
                  => /\ q2.conditionRunner # NoRunner
                     /\ q2.conditionRunner[1].constructedWith
                            = q.conditionRunner[1].constructedWith
           /\ \A k \in runs : /\ evals'[k].expression = evals'[k].visibleIf
                              /\ evals'[k].expression = get_visibleIf(q)
                              /\ \A n \in news : n < k
           /\ (call'.op = "runCondition" /\ get_visibleIf(q) # "")
                  => Cardinality(runs) = 1]_vars

\* an evaluator built with another text evaluated "{x} = 0", the current
\* visibleIf, and was not rebuilt
C15_Witness ==
    /\ call.op = "runCondition"
    /\ Len(evals) = 1
    /\ evals[1].ev = "run"
    /\ evals[1].expression = "{x} = 0"
    /\ questions[call.q].conditionRunner # NoRunner
    /\ questions[call.q].conditionRunner[1].constructedWith = "{x} = 1"
    /\ get_visibleIf(questions[call.q]) = "{x} = 0"

\* the visibilities the container was notified of by the events l, in order
RECURSIVE NotifiedValues(_)
NotifiedValues(l) ==
    IF l = <<>> THEN <<>>
    ELSE IF Head(l).ev = "questionVisibilityChanged"
         THEN <<Head(l).val>> \o NotifiedValues(Tail(l))
         ELSE NotifiedValues(Tail(l))

\* no two consecutive values of s are equal
Alternates(s) == \A j \in 1..(Len(s) - 1) : s[j] # s[j + 1]

(***************************************************************************)
(* C20 as stated: while a container is attached, every notification        *)
(* carries the boolean given to the setter call that issues it and no two  *)
(* consecutive notifications carry the same boolean, whatever the          *)
(* visibility hooks do.                                                    *)
(***************************************************************************)
C20_NotifiesAssignedAlternating ==
    [][/\ \A k \in Positions(log', "questionVisibilityChanged") :
              log'[k].val = log'[k].assigned
       /\ call'.op # "setData" => Alternates(lastNotified \o NotifiedValues(log'))]_vars

\* the container has been told of every change of q's visible since it was attached
Informed(q) == IF lastNotified = <<>> THEN TRUE ELSE lastNotified[1] = get_visible(q)

(***************************************************************************)
(* C20: a notification is made only with a container attached and carries *)
(* the value visible reads as at the moment of the notification; when no   *)
(* visibility hook calls back into the question, that is the boolean given *)
(* to the setter call that issues it, and it differs from the boolean of   *)
(* the notification before if the container was told of every earlier      *)
(* change.                                                                 *)
(***************************************************************************)
C20_NotifiesCurrentValue ==
    [][LET q == questions[call'.q]
           notes == Positions(log', "questionVisibilityChanged")
       IN  /\ \A k \in notes : log'[k].val = log'[k].current /\ q.survey # NoSurvey
           /\ (q.reentrant = <<>> /\ call'.op # "setData")
                  => /\ \A k \in notes : log'[k].val = log'[k].assigned
                     /\ Cardinality(notes) <= 1
                     /\ Informed(q)
                            => Alternates(lastNotified \o NotifiedValues(log'))]_vars

\* visible was assigned FALSE while the visibility hook assigns TRUE: the hook's
\* assignment notified TRUE, and then the outer call notified TRUE as well
C20_Witness ==
    /\ call.op = "visible" /\ call.arg = FALSE
    /\ questions[call.q].reentrant # <<>>
    /\ questions[call.q].reentrant[1].op = "visible"
    /\ questions[call.q].survey = Survey
    /\ NotifiedValues(log) = <<TRUE, TRUE>>
    /\ \E k \in Positions(log, "questionVisibilityChanged") :
           log[k].assigned = FALSE /\ log[k].val = TRUE /\ log[k].current = TRUE
    /\ get_visible(questions[call.q]) = TRUE

\* the keys a style sheet group supplies as the generic question group, whose
\* empty string is skipped, and as the per-type entry, whose empty string is not
GenericKeys(v) ==
    IF v.kind = "mapping" THEN DOMAIN v.entries
    ELSE IF v.kind = "string" /\ v.text # "" THEN {"root"} ELSE {}

TypeKeys(v) ==
    IF v.kind = "mapping" THEN DOMAIN v.entries
    ELSE IF v.kind = "string" THEN {"root"} ELSE {}

\* the value group v supplies for key k
LayerValue(v, k) == IF v.kind = "string" THEN Str(v.text) ELSE v.entries[k]

\* m is the mapping base with the keys of the error group group laid over it
IsLaidOver(m, base, group) ==
    /\ m.kind = "mapping"
    /\ DOMAIN m.entries = DOMAIN base.entries \cup GenericKeys(group)
    /\ \A j \in DOMAIN m.entries :
           m.entries[j] = IF j \in GenericKeys(group) THEN LayerValue(group, j)
                          ELSE base.entries[j]

\* v is the value the style sheet css gives key k: the per-type entry's if it
\* supplies k, else the generic question group's; inside a mapping the generic
\* group supplies for "error", the error group, copied after it, wins key by key
IsSheetValue(v, css, k) ==
    IF k \in TypeKeys(css.questionbase) THEN v = LayerValue(css.questionbase, k)
    ELSE IF k = "error" /\ LayerValue(css.question, k).kind = "mapping"
         THEN IsLaidOver(v, LayerValue(css.question, k), css.error)
         ELSE v = LayerValue(css.question, k)

(***************************************************************************)
(* C11: in the result of cssClasses the latest layer wins for every key:   *)
(* a key the per-type entry supplies (root for a string, each key of a     *)
(* mapping) has the per-type value, a key only the generic question group  *)
(* supplies has the generic value, and with a container attached the       *)
(* customization handler is given that merged result and every key it      *)
(* assigns has its value, the other keys keeping the merged value.         *)
(***************************************************************************)
C11_LatestLayerWins ==
    [][(call'.op = "cssClasses" /\ ~thrown') =>
           LET q == questions[call'.q]
               result == returned'[1].entries
               sheetKeys == GenericKeys(surveyCss.question)
                               \cup TypeKeys(surveyCss.questionbase)
               cust == call'.arg.customization
           IN  IF q.survey = NoSurvey
               THEN /\ log' = <<>>
                    /\ \A k \in sheetKeys :
                           k \in DOMAIN result /\ IsSheetValue(result[k], surveyCss, k)
               ELSE /\ Len(log') = 1
                    /\ log'[1].ev = "updateQuestionCssClasses"
                    /\ \A k \in sheetKeys :
                           /\ k \in DOMAIN log'[1].classes.entries
                           /\ IsSheetValue(log'[1].classes.entries[k], surveyCss, k)
                    /\ \A k \in DOMAIN cust :
                           k \in DOMAIN result /\ result[k] = cust[k]
                    /\ \A k \in DOMAIN result \ DOMAIN cust :
                           result[k] = log'[1].classes.entries[k]]_vars

\* root is supplied by the generic group, the per-type entry and the handler,
\* title by the generic group only, error by the generic group and the
\* per-type entry
C11_Witness ==
    /\ call.op = "cssClasses" /\ ~thrown
    /\ questions[call.q].survey = Survey
    /\ {"root", "title", "error"} \subseteq DOMAIN surveyCss.question.entries
    /\ {"root", "error"} \subseteq DOMAIN surveyCss.questionbase.entries
    /\ call.arg.customization = ("root" :> Str("c-root"))
    /\ returned[1].entries["root"] = Str("c-root")
    /\ log[1].classes.entries["root"] = Str("t-root")
    /\ returned[1].entries["title"] = Str("q-title")
    /\ returned[1].entries["error"] = surveyCss.questionbase.entries["error"]

\* the style sheet css supplies a string for the key "error" of the result: the
\* per-type mapping does, or it is silent on the key and the question group does
SuppliesErrorString(css) ==
    IF css.questionbase.kind = "mapping" /\ "error" \in DOMAIN css.questionbase.entries
    THEN css.questionbase.entries["error"].kind = "string"
    ELSE /\ css.question.kind = "mapping"
         /\ "error" \in DOMAIN css.question.entries
         /\ css.question.entries["error"].kind = "string"

C16_StyleSheetNeverMutated ==
    [][(call'.op = "cssClasses" /\ questions[call'.q].survey = NoSurvey)
           => surveyCss' = surveyCss]_vars

====
